---- MODULE Spec2Model ----
(***************************************************************************)
(* Model of the reflector-tutorial Soroban contract (src/src/lib.rs) and   *)
(* of the Reflector oracle client it uses (src/src/reflector.rs).          *)
(*                                                                         *)
(* The contract has two entry points: __constructor, which stores a fixed  *)
(* oracle address in the instance-storage slot "oracle", and hello_xlm,    *)
(* which reads the slot, calls lastprice(Other("XLM")) on the contract at  *)
(* that address and returns the price, or -1 when the oracle has none.     *)
(* The environment is the ledger: what is deployed at each address and the *)
(* oracle's price feed.  Each invocation is atomic (the host serializes    *)
(* invocations and rolls an aborted one back).                             *)
(***************************************************************************)
EXTENDS Integers, Sequences, FiniteSets, TLC

\* ---------------------------------------------------------------- bounds
\* Prices are i128; the contract never computes with them, so a small
\* symmetric range around 0 that holds the sentinel -1 is enough.
MaxPrice == 2
\* Timestamps are u64; 0..MaxTime.
MaxTime == 2

Prices == (0 - MaxPrice)..MaxPrice
Timestamps == 0..MaxTime

\* ------------------------------------------------------------ data types
\* Option<T>
None == [tag |-> "None"]
Some(x) == [tag |-> "Some", val |-> x]

\* enum Asset { Stellar(Address), Other(Symbol) }
Stellar(a) == [tag |-> "Stellar", val |-> a]
Other(s) == [tag |-> "Other", val |-> s]

\* struct PriceData { price: i128, timestamp: u64 }
PriceData == [price : Prices, timestamp : Timestamps]

\* The address literal of __constructor, and a second address of the ledger.
OracleAddress == "CCYOZJCOPG34LLQQ7N24YXBM7LL62R7ONMZ3G6WZAAYPB5OYKOMJRN63"
OtherAddress == "CAAAAAAAAAAAAAAAAAAAAAAAAAAAAAAAAAAAAAAAAAAAAAAAAAAAAHK3M"
Addresses == {OracleAddress, OtherAddress}

\* The asset the contract asks for, and the assets the modelled oracle knows;
\* any other asset is unknown to it.
XlmAsset == Other("XLM")
Assets == {Other("XLM")}

\* Instance-storage keys of the contract.
Keys == {"oracle"}

\* Whoever submits an invocation; hello_xlm takes no Address and calls no
\* require_auth, so the caller is only recorded.
Callers == {"deployer", "anyone"}

\* The operations of the ReflectorClient.
ReflectorFns ==
    {"base", "assets", "decimals", "price", "lastprice", "prices",
     "x_last_price", "x_price", "x_prices", "twap", "x_twap", "resolution",
     "period", "last_timestamp", "version", "admin"}

\* What may live at an address: nothing, a Reflector oracle, a Reflector
\* oracle whose call fails (internal error), or a contract whose lastprice
\* does not have the declared type.
ContractKinds == {"none", "reflector", "faulty", "foreign"}

\* Outcome of an invocation: a value returned to the caller, or an abort of
\* the whole invocation (a panic or a trap of the host).
Return(v) == [tag |-> "Return", val |-> v]
Abort == [tag |-> "Abort"]

\* Result of a cross-contract call as the calling contract sees it: the
\* decoded value, or a trap that takes the caller down with it.
Ok(v) == [tag |-> "Ok", val |-> v]
Trap(why) == [tag |-> "Trap", why |-> why]
NotCalled == [tag |-> "NotCalled"]

VARIABLES
    storage,      \* instance storage of the contract: key -> Option<Address>
    constructed,  \* TRUE once __constructor has completed ("ready")
    ledger,       \* address -> kind of contract deployed there
    feed,         \* the oracle's table: asset -> Option<PriceData>
    last,         \* record of the most recent invocation of the contract
    prev          \* record of the invocation before it

vars == <<storage, constructed, ledger, feed, last, prev>>

EmptyStorage == [k \in Keys |-> None]
EmptyFeed == [a \in Assets |-> None]

\* Record of one invocation: the entry point, who invoked it, the host calls
\* it made in order, what the remote call answered, and how it ended.
Invocation(op, caller, calls, response, outcome) ==
    [op |-> op, caller |-> caller, calls |-> calls, response |-> response,
     outcome |-> outcome]
NoInvocation == Invocation("none", "", <<>>, NotCalled, Abort)

\* ------------------------------------------------------- host operations
\* env.storage().instance().get(key)
StorageGet(st, key) == st[key]

\* env.storage().instance().set(key, val)
StorageSet(st, key, val) == [st EXCEPT ![key] = Some(val)]

\* Address::from_str: the strkey of an address of the ledger parses to that
\* address; anything else makes the host trap.
AddressFromStr(s) == IF s \in Addresses THEN Ok(s) ELSE Trap("strkey")

\* ReflectorClient::lastprice(asset) on the contract at addr: the host
\* dispatches to whatever is deployed there, and the client decodes the
\* answer as Option<PriceData>.  An oracle answers None for an asset it
\* does not know or has no data for.
lastprice(addr, asset) ==
    CASE ledger[addr] = "none" -> Trap("missing contract")
      [] ledger[addr] = "faulty" -> Trap("contract error")
      [] ledger[addr] = "foreign" -> Trap("type mismatch")
      [] ledger[addr] = "reflector" ->
             Ok(IF asset \in Assets THEN feed[asset] ELSE None)

\* The entries of an invocation's call log.
GetCall(key) ==
    [host |-> "storage_get", target |-> key, fn |-> "", arg |-> None]
SetCall(key) ==
    [host |-> "storage_set", target |-> key, fn |-> "", arg |-> None]
InvokeCall(addr, fn, asset) ==
    [host |-> "invoke_contract", target |-> addr, fn |-> fn, arg |-> Some(asset)]

\* --------------------------------------------------------- the contract
\* Variant of ConstructorBody that stores another address than the literal.
ConstructorBody_wrongAddress(st) ==
    [storage |-> StorageSet(st, "oracle", OtherAddress),
     calls |-> <<SetCall("oracle")>>,
     outcome |-> Return("()")]

\* __constructor, lib.rs 13-19: parse the address literal and store it in
\* the "oracle" slot.  Yields the storage and the call log of the run, or a
\* trap if the literal does not parse.
ConstructorBody(st) ==
    LET oracle_address == AddressFromStr(OracleAddress)
    IN  IF oracle_address.tag = "Trap"
        THEN [storage |-> st, calls |-> <<>>, outcome |-> Abort]
        ELSE [storage |-> StorageSet(st, "oracle", oracle_address.val),
              calls |-> <<SetCall("oracle")>>,
              outcome |-> Return("()")]

\* Variant of OracleSlot that falls back to a default address when the slot
\* is absent (unwrap_or instead of unwrap).
OracleSlot_default(st) ==
    IF StorageGet(st, "oracle") = None
    THEN Some(OracleAddress)
    ELSE StorageGet(st, "oracle")

\* hello_xlm, lib.rs 23-26: the read of the "oracle" slot (the unwrap of
\* line 27 is in HelloXlmBody).
OracleSlot(st) == StorageGet(st, "oracle")

\* Variant of QueryOracle that asks for another asset.
QueryOracle_btc(oracle_address) ==
    LET btc_asset == Other("BTC")
    IN  [call |-> InvokeCall(oracle_address, "lastprice", btc_asset),
         result |-> lastprice(oracle_address, btc_asset)]

\* hello_xlm, lib.rs 29-31: build the client for the stored address, build
\* the asset Other("XLM") and call lastprice.  Yields the log entry of the
\* call and its result.
QueryOracle(oracle_address) ==
    LET xlm_asset == Other("XLM")
    IN  [call |-> InvokeCall(oracle_address, "lastprice", xlm_asset),
         result |-> lastprice(oracle_address, xlm_asset)]

\* Variant of MatchPrice that returns the wrong field of PriceData.
MatchPrice_timestamp(price_data) ==
    IF price_data.tag = "Some" THEN price_data.val.timestamp ELSE 0 - 1

\* Variant of MatchPrice with 0 as the value of the absent case.
MatchPrice_zero(price_data) ==
    IF price_data.tag = "Some" THEN price_data.val.price ELSE 0

\* Variant of MatchPrice that reads a non-positive price as absent.
MatchPrice_positive(price_data) ==
    IF price_data.tag = "Some" /\ price_data.val.price > 0
    THEN price_data.val.price
    ELSE 0 - 1

\* hello_xlm, lib.rs 33-36: the match on Option<PriceData>.
MatchPrice(price_data) ==
    IF price_data.tag = "Some" THEN price_data.val.price ELSE 0 - 1

\* Variant of HelloXlmBody that recovers from a failed remote call
\* (try_lastprice, with the failure read as "no price").
HelloXlmBody_try(st) ==
    LET slot == OracleSlot(st)
    IN  IF slot.tag = "None"
        THEN [storage |-> st, calls |-> <<GetCall("oracle")>>,
              response |-> NotCalled, outcome |-> Abort]
        ELSE LET q == QueryOracle(slot.val)
                 log == <<GetCall("oracle"), q.call>>
             IN  [storage |-> st, calls |-> log, response |-> q.result,
                  outcome |-> Return(MatchPrice(IF q.result.tag = "Trap"
                                                THEN None
                                                ELSE q.result.val))]

\* hello_xlm, lib.rs 22-37, as a function of the instance storage (and of
\* the ledger, through lastprice): the storage it leaves, the host calls it
\* made, the remote call's answer and the outcome.
HelloXlmBody(st) ==
    LET slot == OracleSlot(st)
    IN  IF slot.tag = "None"
        THEN \* .unwrap() on None panics
             [storage |-> st, calls |-> <<GetCall("oracle")>>,
              response |-> NotCalled, outcome |-> Abort]
        ELSE LET q == QueryOracle(slot.val)
                 log == <<GetCall("oracle"), q.call>>
             IN  IF q.result.tag = "Trap"
                 THEN \* the trap of the callee aborts the caller
                      [storage |-> st, calls |-> log,
                       response |-> q.result, outcome |-> Abort]
                 ELSE [storage |-> st, calls |-> log,
                       response |-> q.result,
                       outcome |-> Return(MatchPrice(q.result.val))]

\* The host commits the storage of an invocation that returns and rolls
\* back the storage of one that aborts.
Commit(before, after, outcome) ==
    IF outcome.tag = "Abort" THEN before ELSE after

\* ---------------------------------------------------------------- actions
\* Variant of Constructor whose stored address depends on who invokes it.
Constructor_input(caller, hostPermits) ==
    /\ constructed \/ hostPermits
    /\ LET supplied == IF caller = "deployer" THEN OracleAddress
                       ELSE OtherAddress
           run == IF hostPermits
                  THEN [storage |-> StorageSet(storage, "oracle", supplied),
                        calls |-> <<SetCall("oracle")>>,
                        outcome |-> Return("()")]
                  ELSE [storage |-> storage, calls |-> <<>>, outcome |-> Abort]
       IN  /\ storage' = Commit(storage, run.storage, run.outcome)
           /\ constructed' = (constructed \/ run.outcome.tag = "Return")
           /\ last' = Invocation("__constructor", caller, run.calls,
                                 NotCalled, run.outcome)
    /\ prev' = last
    /\ UNCHANGED <<ledger, feed>>

\* An invocation of __constructor.  The host runs it at deployment; on a
\* contract that is already constructed the host either lets it run again
\* (hostPermits) or rejects the invocation before any code runs.
Constructor(caller, hostPermits) ==
    /\ constructed \/ hostPermits
    /\ LET run == IF hostPermits
                  THEN ConstructorBody(storage)
                  ELSE [storage |-> storage, calls |-> <<>>, outcome |-> Abort]
       IN  /\ storage' = Commit(storage, run.storage, run.outcome)
           /\ constructed' = (constructed \/ run.outcome.tag = "Return")
           /\ last' = Invocation("__constructor", caller, run.calls,
                                 NotCalled, run.outcome)
    /\ prev' = last
    /\ UNCHANGED <<ledger, feed>>

\* Variant of hello_xlm that repoints the slot when the oracle has no price.
hello_xlm_failover(caller) ==
    /\ LET run == HelloXlmBody(storage)
           after == IF run.response = Ok(None)
                    THEN StorageSet(storage, "oracle", OtherAddress)
                    ELSE run.storage
       IN  /\ storage' = Commit(storage, after, run.outcome)
           /\ last' = Invocation("hello_xlm", caller, run.calls,
                                 run.response, run.outcome)
    /\ prev' = last
    /\ UNCHANGED <<constructed, ledger, feed>>

\* Variant of hello_xlm that only serves the deployer.
hello_xlm_auth(caller) ==
    /\ LET run == IF caller = "deployer"
                  THEN HelloXlmBody(storage)
                  ELSE [storage |-> storage, calls |-> <<>>,
                        response |-> NotCalled, outcome |-> Abort]
       IN  /\ storage' = Commit(storage, run.storage, run.outcome)
           /\ last' = Invocation("hello_xlm", caller, run.calls,
                                 run.response, run.outcome)
    /\ prev' = last
    /\ UNCHANGED <<constructed, ledger, feed>>

\* An invocation of hello_xlm by any caller, at any time.
hello_xlm(caller) ==
    /\ LET run == HelloXlmBody(storage)
       IN  /\ storage' = Commit(storage, run.storage, run.outcome)
           /\ last' = Invocation("hello_xlm", caller, run.calls,
                                 run.response, run.outcome)
    /\ prev' = last
    /\ UNCHANGED <<constructed, ledger, feed>>

\* Environment: the oracle at the configured address records a price for an
\* asset.
OracleUpdate(asset, data) ==
    /\ ledger[OracleAddress] = "reflector"
    /\ feed' = [feed EXCEPT ![asset] = Some(data)]
    /\ UNCHANGED <<storage, constructed, ledger, last, prev>>

\* Environment: what is deployed at the configured address changes (an
\* oracle is deployed with an empty table, removed, starts failing, or is a
\* contract of another interface).
LedgerChange(kind) ==
    /\ ledger[OracleAddress] # kind
    /\ ledger' = [ledger EXCEPT ![OracleAddress] = kind]
    /\ feed' = EmptyFeed
    /\ UNCHANGED <<storage, constructed, last, prev>>

Init ==
    /\ storage = EmptyStorage
    /\ constructed = FALSE
    /\ ledger = [a \in Addresses |-> "none"]
    /\ feed = EmptyFeed
    /\ last = NoInvocation
    /\ prev = NoInvocation

Next ==
    \/ \E caller \in Callers, hostPermits \in BOOLEAN :
           Constructor(caller, hostPermits)
    \/ \E caller \in Callers : hello_xlm(caller)
    \/ \E asset \in Assets, data \in PriceData : OracleUpdate(asset, data)
    \/ \E kind \in ContractKinds : LedgerChange(kind)

Spec == Init /\ [][Next]_vars

TypeOK ==
    /\ storage \in [Keys -> {None} \cup {Some(a) : a \in Addresses}]
    /\ constructed \in BOOLEAN
    /\ ledger \in [Addresses -> ContractKinds]
    /\ feed \in [Assets -> {None} \cup {Some(d) : d \in PriceData}]
    /\ last.op \in {"none", "__constructor", "hello_xlm"}
    /\ prev.op \in {"none", "__constructor", "hello_xlm"}

\* ----------------------------------------------------------------- claims
\* The invocation recorded in r is a query.
IsQuery(r) == r.op = "hello_xlm"
\* The oracle answered the query recorded in r with a PriceData.
GotPrice(r) ==
    IsQuery(r) /\ r.response.tag = "Ok" /\ r.response.val.tag = "Some"
\* The oracle answered the query recorded in r with the absent case.
GotNone(r) == IsQuery(r) /\ r.response = Ok(None)
\* The remote call of the query recorded in r failed at the platform level.
GotTrap(r) == IsQuery(r) /\ r.response.tag = "Trap"

\* C1: whenever the oracle's lastprice for Other("XLM") returned
\* PriceData{price: P, timestamp: T}, hello_xlm returned exactly P, whatever
\* T is.
C1_ReturnsOraclePrice ==
    GotPrice(last) =>
        /\ last.calls[2].arg = Some(XlmAsset)
        /\ last.outcome = Return(last.response.val.val.price)

C1_Witness ==
    /\ constructed
    /\ GotPrice(last)
    /\ last.response.val.val.price = 1
    /\ last.response.val.val.timestamp = 0
    /\ last.outcome = Return(1)

\* C2: whenever the oracle's lastprice for Other("XLM") returned the absent
\* case, hello_xlm returned exactly -1 and did not abort.
C2_AbsentReturnsMinusOne ==
    GotNone(last) => last.outcome = Return(0 - 1)

C2_Witness ==
    /\ constructed
    /\ GotNone(last)
    /\ ledger[OracleAddress] = "reflector"
    /\ feed[XlmAsset] = None
    /\ last.outcome.tag = "Return"

\* C3: in every state after construction has completed, whatever queries
\* (returning or aborting) and repeated constructions followed, the "oracle"
\* slot is present and holds the fixed configured address.
C3_SlotHoldsConfiguredAddress ==
    constructed =>
        storage["oracle"] =
            Some("CCYOZJCOPG34LLQQ7N24YXBM7LL62R7ONMZ3G6WZAAYPB5OYKOMJRN63")

C3_Witness ==
    /\ constructed
    /\ IsQuery(prev) /\ prev.outcome.tag = "Return"
    /\ IsQuery(last) /\ last.outcome.tag = "Abort"
    /\ storage["oracle"] = Some(OracleAddress)

\* C4: a step that is an invocation of hello_xlm leaves the instance
\* storage as it was, whatever the outcome of the invocation.
C4_QueryWritesNothing ==
    [][IsQuery(last') => storage' = storage]_vars

C4_Witness ==
    /\ constructed
    /\ IsQuery(prev) /\ prev.outcome = Return(0 - 1)
    /\ IsQuery(last) /\ last.outcome = Return(0)
    /\ storage["oracle"] = Some(OracleAddress)

\* C5: when the remote lastprice call fails at the platform level (no
\* contract at the address, error inside the oracle, type mismatch), the
\* invocation of hello_xlm aborts: it returns no value, it made the one
\* remote call and no second one, and the storage is as before.
C5_RemoteFailureAborts ==
    [][GotTrap(last') =>
          /\ last'.outcome = Abort
          /\ Len(last'.calls) = 2
          /\ storage' = storage]_vars

C5_Witness ==
    /\ constructed
    /\ GotTrap(last)
    /\ last.response.why = "contract error"
    /\ last.outcome = Abort
    /\ IsQuery(prev) /\ prev.response.tag = "Trap"
    /\ prev.response.why = "type mismatch"

\* C6: a query invoked while the "oracle" slot is absent aborts before any
\* remote call: the only host call is the read of the slot, no value is
\* returned, and the slot is still absent.
C6_AbsentSlotAborts ==
    (~constructed /\ IsQuery(last)) =>
        /\ last.calls = <<GetCall("oracle")>>
        /\ last.response = NotCalled
        /\ last.outcome = Abort
        /\ storage["oracle"] = None

C6_Witness ==
    /\ ~constructed
    /\ IsQuery(last)
    /\ ledger[OracleAddress] = "reflector"
    /\ feed[XlmAsset] # None
    /\ last.outcome = Abort

\* C7: an invocation of __constructor on a contract that is already
\* constructed leaves the "oracle" slot as it was, both when the host lets
\* it run again and when the host rejects it.
C7_ReconstructionKeepsSlot ==
    [][(constructed /\ last'.op = "__constructor") => storage' = storage]_vars

C7_Witness ==
    /\ prev.op = "__constructor" /\ prev.outcome.tag = "Return"
    /\ last.op = "__constructor" /\ last.outcome.tag = "Return"
    /\ prev.caller # last.caller
    /\ storage["oracle"] = Some(OracleAddress)

\* C8: after construction every query, whoever the caller, reaches the
\* oracle, and two queries that saw the same oracle response have the same
\* outcome, whoever the callers.
C8_OutcomeDependsOnResponseOnly ==
    (constructed /\ IsQuery(last)) =>
        /\ last.response # NotCalled
        /\ (IsQuery(prev) /\ prev.response = last.response)
               => prev.outcome = last.outcome

C8_Witness ==
    /\ constructed
    /\ GotPrice(prev) /\ GotPrice(last)
    /\ prev.response = last.response
    /\ prev.caller = "deployer" /\ last.caller = "anyone"
    /\ prev.outcome = last.outcome

\* C9: a query that gets past the slot read makes, in this order, the read
\* of the "oracle" slot and exactly one remote call: lastprice, on the
\* address held by the slot, with the asset Other("XLM").
C9_OneLastpriceCall ==
    (IsQuery(last) /\ last.response # NotCalled) =>
        /\ storage["oracle"] # None
        /\ last.calls =
               <<GetCall("oracle"),
                 InvokeCall(storage["oracle"].val, "lastprice", Other("XLM"))>>
        /\ last.calls[2].fn \in ReflectorFns

C9_Witness ==
    /\ IsQuery(last)
    /\ Len(last.calls) = 2
    /\ last.calls[2].target = OracleAddress
    /\ ledger[OracleAddress] = "reflector"
    /\ feed[XlmAsset] # None
    /\ last.response = Ok(feed[XlmAsset])

\* C10: of two queries, one answered with the absent case and one with a
\* PriceData of price P, both return a value, and the values are equal
\* exactly when P = -1.
C10_SentinelConflation ==
    (GotNone(prev) /\ GotPrice(last)) =>
        /\ prev.outcome.tag = "Return"
        /\ last.outcome.tag = "Return"
        /\ (prev.outcome = last.outcome)
               <=> (last.response.val.val.price = 0 - 1)

C10_Witness ==
    /\ GotNone(prev)
    /\ GotPrice(last)
    /\ last.response.val.val.price = 0 - 1
    /\ prev.outcome = last.outcome
====
